---- MODULE Spec2Model ----
(***************************************************************************)
(* Model of the direct-go RPC client (package direct, client.go):          *)
(* request/response correlation, notification dispatch and connection       *)
(* lifecycle of Client.  Each critical section of c.mu is one atomic step.  *)
(***************************************************************************)
EXTENDS Integers, Sequences, FiniteSets, TLC

\* ------------------------------------------------------------------ bounds
MaxCalls == 2
MaxNotifs == 2
MaxCloses == 2
MaxHandlers == 2
MaxPings == 1
MaxDecodeErrors == 1
MaxBootIds == 10
MaxConsumers == 2
MaxListeners == 2
MaxIgnored == 1

\* ------------------------------------------------------- program constants
RpcRequest == 0
RpcResponse == 1
MessagesCap == 100

\* ------------------------------------------------------------ wire values
\* A decoded MessagePack value (interface{}): its dynamic type t, a number n
\* (floats are held in halves, so n = 3 is 1.5) and a text s.
IntV(i) == [t |-> "int", n |-> i, s |-> ""]
FloatV(halves) == [t |-> "float", n |-> halves, s |-> ""]
StrV(x) == [t |-> "str", n |-> 0, s |-> x]
BoolV(b) == [t |-> "bool", n |-> IF b THEN 1 ELSE 0, s |-> ""]
NilV == [t |-> "nil", n |-> 0, s |-> ""]
\* map[string]interface{} with the given content, written as Go prints it
MapV(content) == [t |-> "map", n |-> 0, s |-> content]
\* []interface{} of length len whose first element is the map MapV(first)
ArrV(len, first) == [t |-> "arr", n |-> len, s |-> first]

\* toInt64: every numeric dynamic type converts (floats truncate), others fail.
toInt64(v) ==
    CASE v.t = "int" -> [n |-> v.n, ok |-> TRUE]
      [] v.t = "float" -> [n |-> v.n \div 2, ok |-> TRUE]
      [] OTHER -> [n |-> 0, ok |-> FALSE]

\* fmt's %v rendering of a decoded value.
Sprintf_v(v) ==
    CASE v.t = "int" -> ToString(v.n)
      [] v.t = "float" -> ToString(v.n \div 2) \o (IF v.n % 2 = 1 THEN ".5" ELSE "")
      [] v.t = "str" -> v.s
      [] v.t = "bool" -> (IF v.n = 1 THEN "true" ELSE "false")
      [] v.t = "map" -> "map[" \o v.s \o "]"
      [] v.t = "arr" -> (IF v.n = 0 THEN "[]" ELSE "[map[" \o v.s \o "]]")
      [] OTHER -> "<nil>"

\* A not-connected condition reported as a write failure.
NotConnectedErr_asWrite == [t |-> "map", n |-> 0, s |-> "message:write failed"]

\* The error values call() passes to onError itself.
NotConnectedErr == MapV("message:not connected")
WriteErr == MapV("message:write failed")
MarshalErr == MapV("message:msgpack: unsupported type")

\* Call wrapping the error without its payload.
RetRpcError_noPayload(err) == [kind |-> "err", val |-> [t |-> "nil", n |-> 0, s |-> ""], msg |-> "RPC error"]

\* What Call returns: (result, nil), or (nil, error with the given text).
RetNone == [kind |-> "none", val |-> NilV, msg |-> ""]
RetOk(result) == [kind |-> "ok", val |-> result, msg |-> ""]
RetRpcError(err) == [kind |-> "err", val |-> NilV, msg |-> "RPC error: " \o Sprintf_v(err)]
RetTimeout == [kind |-> "err", val |-> NilV, msg |-> "RPC timeout"]

\* ------------------------------------------------------------ inbound data
\* Identifiers the server may put in a response: every identifier a call can
\* hold and, as stray ones, one more, a float (1.5) and a non-number.
CallIds == {IntV(i) : i \in 1 .. MaxCalls}
StrayIds == {IntV(MaxCalls + 1), FloatV(3), StrV("x")}
\* Error payloads and results of a response.
ErrVals == {IntV(1), StrV("1"), MapV("message:not found")}
ResultVals == {MapV("id:user123"), BoolV(TRUE)}

\* A WebSocket message as ReadMessage returns it: undecodable bytes, an array
\* shorter than 4, or a 4-element array.
GarbageData == [shape |-> "garbage", kind |-> NilV, id |-> NilV, f3 |-> NilV, f4 |-> NilV]
ShortData == [shape |-> "short", kind |-> IntV(1), id |-> IntV(1), f3 |-> NilV, f4 |-> NilV]
Frame(kind, id, f3, f4) == [shape |-> "frame", kind |-> kind, id |-> id, f3 |-> f3, f4 |-> f4]
NoData == [shape |-> "none", kind |-> NilV, id |-> NilV, f3 |-> NilV, f4 |-> NilV]
\* Responses: a null error with a result, or an error payload with a null result.
ResponseFrames ==
    {Frame(IntV(RpcResponse), i, NilV, r) : i \in CallIds, r \in ResultVals}
    \cup {Frame(IntV(RpcResponse), i, e, NilV) : i \in CallIds, e \in ErrVals}
    \cup {Frame(IntV(RpcResponse), i, NilV, BoolV(TRUE)) : i \in StrayIds}
    \cup {Frame(IntV(RpcResponse), FloatV(3), StrV("1"), NilV)}
\* Server notifications: the message method with and without a message id in
\* the payload, another method under several identifiers, and the malformed
\* ones (method not a string, parameter list empty or not a list).
RequestFrames ==
    {Frame(IntV(RpcRequest), IntV(0), StrV("notify_create_message"), ArrV(1, "id:m1 talk_id:t1")),
     Frame(IntV(RpcRequest), IntV(0), StrV("notify_create_message"), ArrV(1, "talk_id:t1")),
     Frame(IntV(RpcRequest), IntV(0), StrV("notify_update_user"), ArrV(1, "id:u1")),
     Frame(IntV(RpcRequest), IntV(1), StrV("notify_update_user"), ArrV(1, "id:u1")),
     Frame(IntV(RpcRequest), StrV("x"), StrV("notify_update_user"), ArrV(1, "id:u1")),
     Frame(IntV(RpcRequest), IntV(7), IntV(5), ArrV(1, "id:u1")),
     Frame(IntV(RpcRequest), IntV(7), StrV("notify_update_user"), ArrV(0, "")),
     Frame(IntV(RpcRequest), IntV(7), StrV("notify_update_user"), NilV)}
\* Frames of another kind, numeric or not.
OtherFrames == {Frame(k, IntV(1), NilV, BoolV(TRUE)) : k \in {IntV(2), StrV("x")}}
\* Well-formed notifications, which the read loop acknowledges.
AckedFrames ==
    {Frame(IntV(RpcRequest), IntV(0), StrV("notify_create_message"), ArrV(1, "id:m1 talk_id:t1")),
     Frame(IntV(RpcRequest), IntV(1), StrV("notify_update_user"), ArrV(1, "id:u1"))}
\* Message deliveries under both method names, one without a message id, and
\* a notification of another kind.
EventFrames ==
    {Frame(IntV(RpcRequest), IntV(0), StrV("notify_create_message"), ArrV(1, "id:m1 talk_id:t1")),
     Frame(IntV(RpcRequest), IntV(1), StrV("create_message"), ArrV(1, "id:m2 talk_id:t1")),
     Frame(IntV(RpcRequest), IntV(0), StrV("notify_create_message"), ArrV(1, "talk_id:t1")),
     Frame(IntV(RpcRequest), IntV(1), StrV("notify_update_user"), ArrV(1, "id:u1"))}
\* Undecodable bytes among responses and a notification.
MixedData ==
    {GarbageData,
     Frame(IntV(RpcRequest), IntV(1), StrV("notify_update_user"), ArrV(1, "id:u1"))}
    \cup {Frame(IntV(RpcResponse), i, NilV, MapV("id:user123")) : i \in CallIds}
    \cup {Frame(IntV(RpcResponse), IntV(1), MapV("message:not found"), NilV)}
InboundData == ResponseFrames \cup RequestFrames \cup OtherFrames \cup {GarbageData, ShortData}

Calls == 1 .. MaxCalls
Events == {"notify_create_message", "error", "decode_error"}
HandlerIds == 1 .. MaxHandlers

\* Lookup of a key in a decoded map (absent keys give nil).
MapGet(v, key) ==
    CASE v.t = "map" /\ v.s = "id:m1 talk_id:t1" /\ key = "id" -> StrV("m1")
      [] v.t = "map" /\ v.s = "id:m1 talk_id:t1" /\ key = "talk_id" -> StrV("t1")
      [] v.t = "map" /\ v.s = "id:m2 talk_id:t1" /\ key = "id" -> StrV("m2")
      [] v.t = "map" /\ v.s = "id:m2 talk_id:t1" /\ key = "talk_id" -> StrV("t1")
      [] v.t = "map" /\ v.s = "talk_id:t1" /\ key = "talk_id" -> StrV("t1")
      [] OTHER -> NilV

\* params[0] of a non-empty parameter list.
FirstParam(params) == MapV(params.s)

\* parseMessage: the ReceivedMessage built from a notification payload.
parseMessage(data) ==
    [ID |-> IF MapGet(data, "id") # NilV THEN Sprintf_v(MapGet(data, "id")) ELSE "",
     TalkID |-> IF MapGet(data, "talk_id") # NilV THEN Sprintf_v(MapGet(data, "talk_id")) ELSE ""]

\* ------------------------------------------------------------------ state
VARIABLES
    conn,             \* c.conn: "nil" or "set"
    sockClosed,       \* the socket has been released by conn.Close()
    closed,           \* c.closed
    connected,        \* c.connected
    msgID,            \* c.msgID
    responseHandlers, \* c.responseHandlers: the entries [id, owner], one per key
    handlers,         \* c.handlers: event -> sequence of handlers
    Messages,         \* c.Messages: the buffered records
    messagesClosed,   \* close(c.Messages) has run
    doneClosed,       \* number of close(c.Done) executed
    panicked,         \* a goroutine panicked (close of a closed channel)
    rl_pc,            \* readLoop: "off", "loop", "read", "blocked", "exited"
    cur,              \* the response whose OnError readLoop is blocked in
    sendTo,           \* the call whose errCh readLoop is blocked sending to (0: none)
    pl_pc,            \* pingLoop: "off", "wait", "write", "writing", "exited"
    pings,            \* ping writes attempted
    call,             \* the Call invocations
    writes,           \* frames handed to conn.WriteMessage, with the outcome
    spawned,          \* handler goroutines started by emit, in order
    closeRet,         \* what the latest Close call returned ("none" before any)
    connectRet,       \* what the latest Connect call returned ("none" before any)
    issued,           \* identifiers allocated, in allocation order
    routed,           \* calls whose callback handleResponse invoked, in order
    notified,         \* identifier fields of the kind-0 frames routed, in order
    nCloses,          \* Close calls made
    decodeErrors,     \* per undecodable message: how many frames had been routed before it
    ran,              \* handler goroutines that have started running: indices into spawned
    boot,             \* session bootstrap: the callbacks it has pending and what it did, in order
    consumers,        \* per OnMessage goroutine, the records its handler was called with
    enqueued,         \* every record sent on c.Messages, in order
    robot,            \* the Robot: r.client ("nil" or "set") and r.listeners
    invoked,          \* the latest Robot.handleMessage: its text and the listeners whose handler it started
    ignored           \* (history) messages handleMessage dropped without routing, counted up to MaxIgnored

vars == <<conn, sockClosed, closed, connected, msgID, responseHandlers, handlers,
          Messages, messagesClosed, doneClosed, panicked, rl_pc, cur, sendTo,
          pl_pc, pings, call, writes, spawned, closeRet, connectRet, issued, routed, notified, nCloses,
          decodeErrors, ran, boot, consumers, enqueued, robot, invoked, ignored>>

clientVars == <<conn, sockClosed, closed, connected, msgID, responseHandlers, handlers,
                Messages, messagesClosed, doneClosed, panicked>>

\* What is kept of the response that completed a call: its identifier as
\* toInt64 gives it, its error field and its result field.
NoResponse == [id |-> 0, f3 |-> NilV, f4 |-> NilV]
Routed(message) == [id |-> toInt64(message.id).n, f3 |-> message.f3, f4 |-> message.f4]

\* One Call invocation: where its goroutine is, the identifier call() gave it,
\* its two result channels (capacity 1), what it returned, and a record of how
\* it was completed: the frame whose routing invoked its callback, whether
\* that happened after Call had returned, how many of its callbacks were
\* invoked, and whether the client was closed when it started.
NewCall == [pc |-> "idle", id |-> 0, resultCh |-> <<>>, errCh |-> <<>>, ret |-> RetNone,
            afterClose |-> FALSE, completedBy |-> NoResponse, late |-> FALSE, cbCount |-> 0]

\* bot.New: no client, no listener; and no message handled yet.
NewRobot == [client |-> "nil", listeners |-> << >>]
NoMessage == [handled |-> FALSE, text |-> << >>, started |-> << >>]

\* The session bootstrap before createSession has run.
NoBoot == [pending |-> {}, log |-> << >>]

\* NewClient
Init ==
    /\ conn = "nil"
    /\ sockClosed = FALSE
    /\ closed = FALSE
    /\ connected = FALSE
    /\ msgID = 0
    /\ responseHandlers = {}
    /\ handlers = [e \in Events |-> << >>]
    /\ Messages = << >>
    /\ messagesClosed = FALSE
    /\ doneClosed = 0
    /\ panicked = FALSE
    /\ rl_pc = "off"
    /\ cur = NoData
    /\ sendTo = 0
    /\ pl_pc = "off"
    /\ pings = 0
    /\ call = [c \in Calls |-> NewCall]
    /\ writes = << >>
    /\ spawned = << >>
    /\ closeRet = "none"
    /\ connectRet = "none"
    /\ issued = << >>
    /\ routed = << >>
    /\ notified = << >>
    /\ nCloses = 0
    /\ decodeErrors = << >>
    /\ ran = << >>
    /\ boot = NoBoot
    /\ consumers = << >>
    /\ enqueued = << >>
    /\ ignored = 0
    /\ robot = NewRobot
    /\ invoked = NoMessage

\* ------------------------------------------------------------ socket write
\* conn.WriteMessage: fails on a released socket, otherwise the network decides.
WriteStatus(netOk) == IF sockClosed THEN "closed" ELSE IF netOk THEN "ok" ELSE "fail"
\* A frame written by call() or by handleNotification: conn.WriteMessage runs
\* between c.mu.Lock() and c.mu.Unlock() (underLock); duringPing tells that
\* pingLoop, which writes without taking c.mu, was inside conn.WriteMessage at
\* that moment.
WriteRec(k, id, f3, f4, netOk) ==
    [k |-> k, id |-> id, f3 |-> f3, f4 |-> f4, status |-> WriteStatus(netOk),
     duringPing |-> (pl_pc = "writing"), underLock |-> TRUE]

\* --------------------------------------------------------- Connect / Close
\* A connection check that lets a closed client connect again.
AlreadyConnected_open == conn # "nil" /\ ~closed

\* Connect's guard: c.conn is set (Close leaves it set).
AlreadyConnected == conn # "nil"

\* Connect: refuses when c.conn is set, otherwise dials and starts the loops
\* (no access token is configured, so no session is created).
Connect(dialOk) ==
    /\ IF AlreadyConnected
         THEN /\ connectRet' = "already connected"
              /\ UNCHANGED <<conn, closed, rl_pc, pl_pc>>
         ELSE IF ~dialOk
         THEN /\ connectRet' = "websocket dial failed"
              /\ UNCHANGED <<conn, closed, rl_pc, pl_pc>>
         ELSE /\ conn' = "set"
              /\ closed' = FALSE
              /\ rl_pc' = "loop"
              /\ pl_pc' = "wait"
              /\ connectRet' = "nil"
    /\ UNCHANGED <<sockClosed, connected, msgID, responseHandlers, handlers, Messages,
                   messagesClosed, doneClosed, panicked, cur, sendTo, pings, call,
                   writes, spawned, closeRet, issued, routed, notified, nCloses,
                   decodeErrors, ran,
                   boot, consumers, robot, invoked, enqueued, ignored>>

\* Close guarded by the connection alone, not by the closed flag.
CloseIsNoop_nocheck == conn = "nil"

\* The guard of Close: nothing to do without a connection or when closed.
CloseIsNoop == conn = "nil" \/ closed

\* A Close that closes c.Messages itself.
Close_closesMessages(sockErr) ==
    /\ nCloses < MaxCloses
    /\ nCloses' = nCloses + 1
    /\ IF CloseIsNoop
         THEN /\ closeRet' = "nil"
              /\ UNCHANGED <<closed, doneClosed, panicked, sockClosed, messagesClosed>>
         ELSE /\ closed' = TRUE
              /\ doneClosed' = doneClosed + 1
              /\ panicked' = (panicked \/ doneClosed >= 1 \/ messagesClosed)
              /\ messagesClosed' = TRUE
              /\ sockClosed' = TRUE
              /\ closeRet' = IF sockErr THEN "close error" ELSE "nil"
    /\ UNCHANGED <<conn, connected, msgID, responseHandlers, handlers, Messages,
                   rl_pc, cur, sendTo, pl_pc, pings, call, writes,
                   spawned, connectRet, issued, routed, notified,
                   decodeErrors, ran,
                   boot, consumers, robot, invoked, enqueued, ignored>>

\* Close: sets closed, closes Done and returns what conn.Close() returns.
Close(sockErr) ==
    /\ nCloses < MaxCloses
    /\ nCloses' = nCloses + 1
    /\ IF CloseIsNoop
         THEN /\ closeRet' = "nil"
              /\ UNCHANGED <<closed, doneClosed, panicked, sockClosed>>
         ELSE /\ closed' = TRUE
              /\ doneClosed' = doneClosed + 1
              /\ panicked' = (panicked \/ doneClosed >= 1)
              /\ sockClosed' = TRUE
              /\ closeRet' = IF sockErr THEN "close error" ELSE "nil"
    /\ UNCHANGED <<conn, connected, msgID, responseHandlers, handlers, Messages,
                   messagesClosed, rl_pc, cur, sendTo, pl_pc, pings, call, writes,
                   spawned, connectRet, issued, routed, notified,
                   decodeErrors, ran,
                   boot, consumers, robot, invoked, enqueued, ignored>>

\* On: appends the handler to the event's list.
NumHandlers ==
    Len(handlers["notify_create_message"]) + Len(handlers["error"])
        + Len(handlers["decode_error"])
On(event) ==
    /\ NumHandlers < MaxHandlers
    /\ handlers' = [handlers EXCEPT ![event] = Append(@, NumHandlers + 1)]
    /\ UNCHANGED <<conn, sockClosed, closed, connected, msgID, responseHandlers,
                   Messages, messagesClosed, doneClosed, panicked, rl_pc, cur, sendTo,
                   pl_pc, pings, call, writes, spawned, closeRet, connectRet, issued, routed, notified, nCloses,
                   decodeErrors, ran,
                   boot, consumers, robot, invoked, enqueued, ignored>>

\* An emit that starts the handlers of every event.
Emitted_all(event, data) ==
    LET hs == handlers["notify_create_message"] \o handlers["error"] \o handlers["decode_error"]
    IN  [i \in 1 .. Len(hs) |-> [h |-> hs[i], event |-> event, data |-> data]]

\* emit: one goroutine per handler registered for the event, in list order.
Emitted(event, data) ==
    IF event \in Events
    THEN [i \in 1 .. Len(handlers[event]) |-> [h |-> handlers[event][i], event |-> event, data |-> data]]
    ELSE << >>

\* A goroutine started by emit ("go h(data)") begins to run its handler; the
\* scheduler picks any of those started and not yet running.
HandlerRun(i) ==
    /\ i \in 1 .. Len(spawned)
    /\ \A j \in 1 .. Len(ran) : ran[j] # i
    /\ ran' = Append(ran, i)
    /\ UNCHANGED <<conn, sockClosed, closed, connected, msgID, responseHandlers, handlers,
                   Messages, messagesClosed, doneClosed, panicked, rl_pc, cur, sendTo,
                   pl_pc, pings, call, writes, spawned, closeRet, connectRet, issued, routed,
                   notified, nCloses, decodeErrors,
                   boot, consumers, robot, invoked, enqueued, ignored>>

\* OnMessage: starts a goroutine that ranges over c.Messages and calls the
\* handler with every record it receives.  (history) since: how many records
\* had already been taken from the queue when it started.
OnMessage ==
    /\ Len(consumers) < MaxConsumers
    /\ consumers' = Append(consumers, [since |-> Len(enqueued) - Len(Messages), got |-> << >>])
    /\ UNCHANGED <<conn, sockClosed, closed, connected, msgID, responseHandlers, handlers,
                   Messages, messagesClosed, doneClosed, panicked, rl_pc, cur, sendTo,
                   pl_pc, pings, call, writes, spawned, closeRet, connectRet, issued, routed,
                   notified, nCloses, decodeErrors, ran, boot, enqueued, robot, invoked, ignored>>

\* A goroutine started by OnMessage receives the head of c.Messages and calls
\* its handler with it; the receivers of one channel compete for each value.
Consume(h) ==
    /\ h \in 1 .. Len(consumers)
    /\ Messages # << >>
    /\ consumers' = [consumers EXCEPT ![h].got = Append(@, Head(Messages))]
    /\ Messages' = Tail(Messages)
    /\ UNCHANGED <<conn, sockClosed, closed, connected, msgID, responseHandlers, handlers,
                   messagesClosed, doneClosed, panicked, rl_pc, cur, sendTo,
                   pl_pc, pings, call, writes, spawned, closeRet, connectRet, issued, routed,
                   notified, nCloses, decodeErrors, ran, boot, enqueued, robot, invoked, ignored>>

\* ------------------------------------------------------------ call / Call
\* The identifier taken as the value before the increment.
AllocatedID_old(old) == old

\* atomic.AddInt64(&c.msgID, 1): the identifier is the incremented value.
AllocatedID(old) == old + 1

\* call(), first critical section: not-connected check, identifier allocation
\* and registration of the response handler.
CallRegister(c) ==
    /\ call[c].pc = "idle"
    /\ IF c = 1 THEN TRUE ELSE call[c - 1].pc # "idle"
    /\ IF conn = "nil"
         THEN /\ call' = [call EXCEPT ![c].pc = "select",
                                       ![c].errCh = Append(@, NotConnectedErr),
                                       ![c].cbCount = @ + 1,
                                       ![c].afterClose = closed]
              /\ UNCHANGED <<msgID, responseHandlers, issued>>
         ELSE LET id == AllocatedID(msgID) IN
              /\ msgID' = msgID + 1
              /\ responseHandlers' = {h \in responseHandlers : h.id # id}
                                        \cup {[id |-> id, owner |-> c]}
              /\ issued' = Append(issued, id)
              /\ call' = [call EXCEPT ![c].pc = "write", ![c].id = id,
                                       ![c].afterClose = closed]
    /\ UNCHANGED <<conn, sockClosed, closed, connected, handlers, Messages,
                   messagesClosed, doneClosed, panicked, rl_pc, cur, sendTo, pl_pc,
                   pings, writes, spawned, closeRet, connectRet, routed, notified, nCloses,
                   decodeErrors, ran,
                   boot, consumers, robot, invoked, enqueued, ignored>>

\* onError of Call invoked by call() itself: errCh <- err, which blocks the
\* calling goroutine for good when the channel is full (it is its only reader).
OwnError(c, err) ==
    IF Len(call[c].errCh) >= 1
    THEN [call EXCEPT ![c].pc = "blocked", ![c].cbCount = @ + 1]
    ELSE [call EXCEPT ![c].pc = "select", ![c].errCh = Append(@, err), ![c].cbCount = @ + 1]

\* call(), marshal and second critical section: the request frame is written
\* under c.mu; a marshal or write error goes to onError, the handler stays.
CallWrite(c, marshalOk, netOk) ==
    /\ call[c].pc = "write"
    /\ IF ~marshalOk
         THEN /\ call' = OwnError(c, MarshalErr)
              /\ UNCHANGED writes
         ELSE /\ writes' = Append(writes, WriteRec(RpcRequest, call[c].id, StrV("get_me"), ArrV(0, ""), netOk))
              /\ call' = IF WriteStatus(netOk) = "ok"
                          THEN [call EXCEPT ![c].pc = "select"]
                          ELSE OwnError(c, WriteErr)
    /\ UNCHANGED <<conn, sockClosed, closed, connected, msgID, responseHandlers, handlers,
                   Messages, messagesClosed, doneClosed, panicked, rl_pc, cur, sendTo,
                   pl_pc, pings, spawned, closeRet, connectRet, issued, routed, notified, nCloses,
                   decodeErrors, ran,
                   boot, consumers, robot, invoked, enqueued, ignored>>

\* Call's select, a channel being ready: the result with a nil error, or the
\* error wrapped as "RPC error: %v".
CallReturn(c, fromResult) ==
    /\ call[c].pc = "select"
    /\ IF fromResult
         THEN /\ call[c].resultCh # << >>
              /\ call' = [call EXCEPT ![c].pc = "done",
                                       ![c].ret = RetOk(Head(call[c].resultCh)),
                                       ![c].resultCh = Tail(@)]
         ELSE /\ call[c].errCh # << >>
              /\ call' = [call EXCEPT ![c].pc = "done",
                                       ![c].ret = RetRpcError(Head(call[c].errCh)),
                                       ![c].errCh = Tail(@)]
    /\ UNCHANGED <<conn, sockClosed, closed, connected, msgID, responseHandlers, handlers,
                   Messages, messagesClosed, doneClosed, panicked, rl_pc, cur, sendTo,
                   pl_pc, pings, writes, spawned, closeRet, connectRet, issued, routed, notified, nCloses,
                   decodeErrors, ran,
                   boot, consumers, robot, invoked, enqueued, ignored>>

\* A timeout that also tears the connection down.
CallTimeout_closes(c) ==
    /\ call[c].pc = "select"
    /\ call[c].resultCh = << >>
    /\ call[c].errCh = << >>
    /\ call' = [call EXCEPT ![c].pc = "done",
                             ![c].ret = [kind |-> "err", val |-> NilV, msg |-> "RPC timeout"]]
    /\ closed' = TRUE
    /\ sockClosed' = TRUE
    /\ UNCHANGED <<conn, connected, msgID, responseHandlers, handlers,
                   Messages, messagesClosed, doneClosed, panicked, rl_pc, cur, sendTo,
                   pl_pc, pings, writes, spawned, closeRet, connectRet, issued, routed,
                   notified, nCloses,
                   decodeErrors, ran,
                   boot, consumers, robot, invoked, enqueued, ignored>>

\* Call's select, the 30 s timer firing while both channels are empty: Call
\* returns "RPC timeout" and touches nothing else.
CallTimeout(c) ==
    /\ call[c].pc = "select"
    /\ call[c].resultCh = << >>
    /\ call[c].errCh = << >>
    /\ call' = [call EXCEPT ![c].pc = "done", ![c].ret = RetTimeout]
    /\ UNCHANGED <<conn, sockClosed, closed, connected, msgID, responseHandlers, handlers,
                   Messages, messagesClosed, doneClosed, panicked, rl_pc, cur, sendTo,
                   pl_pc, pings, writes, spawned, closeRet, connectRet, issued, routed, notified, nCloses,
                   decodeErrors, ran,
                   boot, consumers, robot, invoked, enqueued, ignored>>

\* ---------------------------------------------------------------- readLoop
\* A read loop that goes on only once every handler emit started has run.
RLCheck_waitsForHandlers ==
    /\ rl_pc = "loop"
    /\ Len(ran) = Len(spawned)
    /\ IF closed
         THEN /\ rl_pc' = "exited"
              /\ messagesClosed' = TRUE
         ELSE /\ rl_pc' = "read"
              /\ UNCHANGED messagesClosed
    /\ UNCHANGED <<conn, sockClosed, closed, connected, msgID, responseHandlers, handlers,
                   Messages, doneClosed, panicked, cur, sendTo, pl_pc, pings,
                   call, writes, spawned, closeRet, connectRet, issued, routed, notified, nCloses,
                   decodeErrors, ran,
                   boot, consumers, robot, invoked, enqueued, ignored>>

\* readLoop, top of the loop: returns when c.closed is set (its deferred
\* close(c.Messages) runs), otherwise goes on to ReadMessage.
RLCheck ==
    /\ rl_pc = "loop"
    /\ IF closed
         THEN /\ rl_pc' = "exited"
              /\ messagesClosed' = TRUE
         ELSE /\ rl_pc' = "read"
              /\ UNCHANGED messagesClosed
    /\ UNCHANGED <<conn, sockClosed, closed, connected, msgID, responseHandlers, handlers,
                   Messages, doneClosed, panicked, cur, sendTo, pl_pc, pings,
                   call, writes, spawned, closeRet, connectRet, issued, routed, notified, nCloses,
                   decodeErrors, ran,
                   boot, consumers, robot, invoked, enqueued, ignored>>

\* A read loop that reports every read error, whatever c.closed says.
RLReadErr_alwaysEmits(sawClosed) ==
    /\ rl_pc = "read"
    /\ sawClosed => closed
    /\ spawned' = spawned \o Emitted("error", MapV("error:read failed"))
    /\ rl_pc' = "exited"
    /\ messagesClosed' = TRUE
    /\ UNCHANGED <<conn, sockClosed, closed, connected, msgID, responseHandlers, handlers,
                   Messages, doneClosed, panicked, cur, sendTo, pl_pc, pings,
                   call, writes, closeRet, connectRet, issued, routed, notified, nCloses,
                   decodeErrors, ran,
                   boot, consumers, robot, invoked, enqueued, ignored>>

\* conn.ReadMessage returns an error (the network failed at any time, or the
\* socket was released): "error" is emitted unless c.closed is seen set; the
\* loop exits.
\* c.closed is read here without c.mu, so a set flag may still be seen unset.
RLReadErr(sawClosed) ==
    /\ rl_pc = "read"
    /\ sawClosed => closed
    /\ spawned' = IF sawClosed THEN spawned
                   ELSE spawned \o Emitted("error", MapV("error:read failed"))
    /\ rl_pc' = "exited"
    /\ messagesClosed' = TRUE
    /\ UNCHANGED <<conn, sockClosed, closed, connected, msgID, responseHandlers, handlers,
                   Messages, doneClosed, panicked, cur, sendTo, pl_pc, pings,
                   call, writes, closeRet, connectRet, issued, routed, notified, nCloses,
                   decodeErrors, ran,
                   boot, consumers, robot, invoked, enqueued, ignored>>

\* readLoop, ReadMessage failing because Close has released the socket:
\* Close wrote c.closed before it released the socket, and the failing read
\* comes after the release, so the check that follows sees the flag as it is.
RLReadClosed ==
    /\ sockClosed
    /\ RLReadErr(closed)

\* A dispatch that takes every decodable message that is not a request for
\* a response.
Route_lenient(data) ==
    IF data.shape = "garbage" THEN "decode_error"
    ELSE IF toInt64(data.kind).ok /\ toInt64(data.kind).n = RpcRequest /\ data.shape # "short"
         THEN "notification"
    ELSE "response"

\* A dispatch that treats a request frame as a response.
Route_requestAsResponse(data) ==
    IF data.shape = "garbage" THEN "decode_error"
    ELSE IF data.shape = "short" THEN "ignore"
    ELSE IF ~toInt64(data.kind).ok THEN "ignore"
    ELSE IF toInt64(data.kind).n \in {RpcResponse, RpcRequest} THEN "response"
    ELSE "ignore"

\* handleMessage's dispatch: decode, length check, kind.
Route(data) ==
    IF data.shape = "garbage" THEN "decode_error"
    ELSE IF data.shape = "short" THEN "ignore"
    ELSE IF ~toInt64(data.kind).ok THEN "ignore"
    ELSE IF toInt64(data.kind).n = RpcResponse THEN "response"
    ELSE IF toInt64(data.kind).n = RpcRequest THEN "notification"
    ELSE "ignore"

\* A lookup that takes the oldest pending handler whatever the identifier.
LookupHandler_any(id) ==
    {h \in responseHandlers : \A g \in responseHandlers : h.id <= g.id}
\* OnSuccess handed the error field instead of the result field.
ResponseResult_err(message) == message.f3

\* handleResponse: the handler registered under the identifier.
LookupHandler(id) == {h \in responseHandlers : h.id = id}
\* handleResponse: the fields handed to the callbacks.
ResponseErr(message) == message.f3
ResponseResult(message) == message.f4

\* handleResponse: the handler is looked up and deleted under c.mu, then
\* OnError(errVal) or OnSuccess(result) runs on the readLoop goroutine; for a
\* Call that is a send on errCh / resultCh, which blocks while the channel is
\* full.  (The callbacks of the session bootstrap, registered under owner 0,
\* are routed by RLBoot.)
HandleResponse(message) ==
    LET id == toInt64(message.id)
        hs == IF id.ok THEN LookupHandler(id.n) ELSE {}
    IN  /\ \A h \in hs : h.owner \in Calls
        /\ responseHandlers' = IF id.ok THEN {h \in responseHandlers : h.id # id.n}
                                ELSE responseHandlers
        /\ IF hs = {}
             THEN /\ rl_pc' = "loop"
                  /\ UNCHANGED <<call, cur, sendTo, routed>>
             ELSE LET c == (CHOOSE h \in hs : TRUE).owner
                      noted == [call EXCEPT ![c].cbCount = @ + 1,
                                            ![c].completedBy = Routed(message),
                                            ![c].late = (call[c].pc = "done")]
                  IN  /\ routed' = Append(routed, c)
                      /\ IF ResponseErr(message) # NilV
                           THEN IF Len(call[c].errCh) >= 1
                                THEN /\ call' = noted
                                     /\ rl_pc' = "blocked" /\ sendTo' = c
                                     /\ cur' = message
                                ELSE /\ call' = [noted EXCEPT ![c].errCh = Append(@, ResponseErr(message))]
                                     /\ rl_pc' = "loop"
                                     /\ UNCHANGED <<cur, sendTo>>
                           ELSE /\ call' = [noted EXCEPT ![c].resultCh = Append(@, ResponseResult(message))]
                                /\ rl_pc' = "loop"
                                /\ UNCHANGED <<cur, sendTo>>
        /\ UNCHANGED <<Messages, writes, spawned, notified, decodeErrors>>

\* A queue that puts the newest record first.
Queued_front(data) ==
    IF parseMessage(data).ID # "" /\ Len(Messages) < MessagesCap
    THEN <<parseMessage(data)>> \o Messages
    ELSE Messages
\* A queue that takes a record whatever its length.
Queued_overflow(data) ==
    IF parseMessage(data).ID # "" THEN Append(Messages, parseMessage(data)) ELSE Messages

\* handleMessageNotification: the parsed record is queued unless it has no ID
\* or the queue is full.
Queued(data) ==
    IF parseMessage(data).ID # "" /\ Len(Messages) < MessagesCap
    THEN Append(Messages, parseMessage(data))
    ELSE Messages

\* A notification handler that puts its acknowledgment ahead of the frames
\* already written.
HandleNotification_ackFirst(message, netOk) ==
    LET msgId == toInt64(message.id).n
        method == message.f3
        params == message.f4
    IN  /\ IF method.t # "str" \/ params.t # "arr" \/ params.n = 0
             THEN UNCHANGED <<Messages, writes, spawned>>
             ELSE /\ spawned' = spawned \o Emitted(method.s, FirstParam(params))
                  /\ Messages' = IF method.s \in {"notify_create_message", "create_message"}
                                  THEN Queued(FirstParam(params))
                                  ELSE Messages
                  /\ writes' = IF conn # "nil"
                                THEN <<WriteRec(RpcResponse, msgId, NilV, BoolV(TRUE), netOk)>> \o writes
                                ELSE writes
        /\ notified' = Append(notified, message.id)
        /\ rl_pc' = "loop"
        /\ UNCHANGED <<responseHandlers, call, cur, sendTo, routed, decodeErrors>>

\* handleNotification: returns early on a non-string method or a missing or
\* empty parameter list; otherwise emits the event, queues a message record
\* for the message methods and writes the acknowledgment under c.mu.
HandleNotification(message, netOk) ==
    LET msgId == toInt64(message.id).n
        method == message.f3
        params == message.f4
    IN  /\ IF method.t # "str" \/ params.t # "arr" \/ params.n = 0
             THEN UNCHANGED <<Messages, writes, spawned>>
             ELSE /\ spawned' = spawned \o Emitted(method.s, FirstParam(params))
                  /\ Messages' = IF method.s \in {"notify_create_message", "create_message"}
                                  THEN Queued(FirstParam(params))
                                  ELSE Messages
                  /\ writes' = IF conn # "nil"
                                THEN Append(writes, WriteRec(RpcResponse, msgId, NilV, BoolV(TRUE), netOk))
                                ELSE writes
        /\ notified' = Append(notified, message.id)
        /\ rl_pc' = "loop"
        /\ UNCHANGED <<responseHandlers, call, cur, sendTo, routed, decodeErrors>>

\* A read loop that gives up on a message it cannot decode.
RLHandle_stopOnDecodeError(data, netOk) ==
    /\ rl_pc = "read"
    /\ Route(data) = "notification" => Len(notified) < MaxNotifs
    /\ Route(data) = "decode_error" => Len(decodeErrors) < MaxDecodeErrors
    /\ CASE Route(data) = "response" -> HandleResponse(data)
         [] Route(data) = "notification" -> HandleNotification(data, netOk)
         [] Route(data) = "decode_error" ->
              /\ spawned' = spawned \o Emitted("decode_error", MapV("error:decode failed"))
              /\ decodeErrors' = Append(decodeErrors, Len(routed) + Len(notified))
              /\ rl_pc' = "exited"
              /\ UNCHANGED <<responseHandlers, call, cur, sendTo, Messages, writes,
                             routed, notified>>
         [] OTHER ->
              /\ rl_pc' = "loop"
              /\ UNCHANGED <<responseHandlers, call, cur, sendTo, Messages, writes, spawned,
                             routed, notified, decodeErrors>>
    /\ UNCHANGED <<conn, sockClosed, closed, connected, msgID, handlers, messagesClosed,
                   doneClosed, panicked, pl_pc, pings, closeRet, connectRet, issued, nCloses,
                   ran,
                   boot, consumers, robot, invoked>>
    \* (history) the record handleMessageNotification sent on c.Messages, if any
    /\ enqueued' = IF Len(Messages') > Len(Messages)
                    THEN Append(enqueued, Messages'[Len(Messages')])
                    ELSE enqueued
    \* (history) handleMessage returned without routing the message
    /\ ignored' = IF Route(data) = "ignore" /\ ignored < MaxIgnored
                   THEN ignored + 1
                   ELSE ignored

\* readLoop past its closed check: conn.ReadMessage returns a message (one
\* that reached the socket before it was released) and handleMessage routes it.
RLHandle(data, netOk) ==
    /\ rl_pc = "read"
    /\ Route(data) = "notification" => Len(notified) < MaxNotifs
    /\ Route(data) = "decode_error" => Len(decodeErrors) < MaxDecodeErrors
    /\ CASE Route(data) = "response" -> HandleResponse(data)
         [] Route(data) = "notification" -> HandleNotification(data, netOk)
         [] Route(data) = "decode_error" ->
              /\ spawned' = spawned \o Emitted("decode_error", MapV("error:decode failed"))
              /\ decodeErrors' = Append(decodeErrors, Len(routed) + Len(notified))
              /\ rl_pc' = "loop"
              /\ UNCHANGED <<responseHandlers, call, cur, sendTo, Messages, writes,
                             routed, notified>>
         [] OTHER ->
              /\ rl_pc' = "loop"
              /\ UNCHANGED <<responseHandlers, call, cur, sendTo, Messages, writes, spawned,
                             routed, notified, decodeErrors>>
    /\ UNCHANGED <<conn, sockClosed, closed, connected, msgID, handlers, messagesClosed,
                   doneClosed, panicked, pl_pc, pings, closeRet, connectRet, issued, nCloses,
                   ran,
                   boot, consumers, robot, invoked>>
    \* (history) the record handleMessageNotification sent on c.Messages, if any
    /\ enqueued' = IF Len(Messages') > Len(Messages)
                    THEN Append(enqueued, Messages'[Len(Messages')])
                    ELSE enqueued
    \* (history) handleMessage returned without routing the message
    /\ ignored' = IF Route(data) = "ignore" /\ ignored < MaxIgnored
                   THEN ignored + 1
                   ELSE ignored

\* handleResponse blocked in OnError: the send completes once Call's select
\* has taken the value that filled errCh.
RLUnblock ==
    /\ rl_pc = "blocked"
    /\ Len(call[sendTo].errCh) < 1
    /\ call' = [call EXCEPT ![sendTo].errCh = Append(@, ResponseErr(cur))]
    /\ rl_pc' = "loop"
    /\ cur' = NoData
    /\ sendTo' = 0
    /\ UNCHANGED <<conn, sockClosed, closed, connected, msgID, responseHandlers, handlers,
                   Messages, messagesClosed, doneClosed, panicked, pl_pc, pings,
                   writes, spawned, closeRet, connectRet, issued, routed, notified, nCloses,
                   decodeErrors, ran,
                   boot, consumers, robot, invoked, enqueued, ignored>>

\* ---------------------------------------------------------------- pingLoop
\* pingLoop, a tick: reads c.closed and c.conn under the read lock.
PingCheck ==
    /\ pl_pc = "wait"
    /\ pings < MaxPings
    /\ pl_pc' = IF closed \/ conn = "nil" THEN "exited" ELSE "write"
    /\ UNCHANGED <<conn, sockClosed, closed, connected, msgID, responseHandlers, handlers,
                   Messages, messagesClosed, doneClosed, panicked, rl_pc, cur, sendTo,
                   pings, call, writes, spawned, closeRet, connectRet, issued, routed, notified, nCloses,
                   decodeErrors, ran,
                   boot, consumers, robot, invoked, enqueued, ignored>>

\* pingLoop enters conn.WriteMessage for the ping; c.mu is not held.
PingStart ==
    /\ pl_pc = "write"
    /\ pl_pc' = "writing"
    /\ UNCHANGED <<conn, sockClosed, closed, connected, msgID, responseHandlers, handlers,
                   Messages, messagesClosed, doneClosed, panicked, rl_pc, cur, sendTo,
                   pings, call, writes, spawned, closeRet, connectRet, issued, routed, notified, nCloses,
                   decodeErrors, ran,
                   boot, consumers, robot, invoked, enqueued, ignored>>

\* pingLoop, the ping write returns; a failed write ends the loop.
PingWrite(netOk) ==
    /\ pl_pc = "writing"
    /\ pings' = pings + 1
    /\ pl_pc' = IF WriteStatus(netOk) = "ok" THEN "wait" ELSE "exited"
    /\ UNCHANGED <<conn, sockClosed, closed, connected, msgID, responseHandlers, handlers,
                   Messages, messagesClosed, doneClosed, panicked, rl_pc, cur, sendTo,
                   call, writes, spawned, closeRet, connectRet, issued, routed, notified, nCloses,
                   decodeErrors, ran,
                   boot, consumers, robot, invoked, enqueued, ignored>>

\* A heartbeat loop that does not react to c.Done.
PingDone_ignored ==
    /\ pl_pc = "wait"
    /\ doneClosed >= 1
    /\ UNCHANGED vars

\* pingLoop, c.Done closed.
PingDone ==
    /\ pl_pc = "wait"
    /\ doneClosed >= 1
    /\ pl_pc' = "exited"
    /\ UNCHANGED <<conn, sockClosed, closed, connected, msgID, responseHandlers, handlers,
                   Messages, messagesClosed, doneClosed, panicked, rl_pc, cur, sendTo,
                   pings, call, writes, spawned, closeRet, connectRet, issued, routed, notified, nCloses,
                   decodeErrors, ran,
                   boot, consumers, robot, invoked, enqueued, ignored>>

\* ------------------------------------------------------------------ Robot
\* What Robot.Call and Robot.SendText return without a client: ErrNotConnected.
RetErrNotConnected == [kind |-> "err", val |-> NilV, msg |-> "daab: robot not connected"]

\* Robot.Run, first part: r.client = direct.NewClient(...).
RunNewClient ==
    /\ robot.client = "nil"
    /\ robot' = [robot EXCEPT !.client = "set"]
    /\ UNCHANGED <<conn, sockClosed, closed, connected, msgID, responseHandlers, handlers,
                   Messages, messagesClosed, doneClosed, panicked, rl_pc, cur, sendTo,
                   pl_pc, pings, call, writes, spawned, closeRet, connectRet, issued, routed,
                   notified, nCloses, decodeErrors, ran, boot, consumers, enqueued, invoked, ignored>>

\* Robot.Run registers its message handler with r.client.OnMessage.
RunOnMessage ==
    /\ robot.client = "set"
    /\ consumers = << >>
    /\ OnMessage

\* Robot.Run calls r.client.Connect(); on an error it returns at once.
RunConnect(dialOk) ==
    /\ consumers # << >>
    /\ connectRet = "none"
    /\ Connect(dialOk)

\* Robot.Run leaves its select (context cancelled, signal, or Done closed);
\* its deferred function calls r.client.Close() and Run returns.  r.client
\* keeps pointing to the closed client.
RunStop ==
    /\ robot.client = "set"
    /\ connectRet = "nil"
    /\ nCloses = 0
    /\ Close(FALSE)

\* Robot.Call, and Robot.SendText, which ends in the same Client.Call:
\* ErrNotConnected when r.client is nil, otherwise r.client.Call.
RobotCall(c) ==
    /\ call[c].pc = "idle"
    /\ IF robot.client = "nil"
         THEN /\ IF c = 1 THEN TRUE ELSE call[c - 1].pc # "idle"
              /\ call' = [call EXCEPT ![c].pc = "done", ![c].ret = RetErrNotConnected,
                                       ![c].afterClose = closed]
              /\ UNCHANGED <<conn, sockClosed, closed, connected, msgID, responseHandlers,
                             handlers, Messages, messagesClosed, doneClosed, panicked, rl_pc,
                             cur, sendTo, pl_pc, pings, writes, spawned, closeRet, connectRet,
                             issued, routed, notified, nCloses, decodeErrors, ran, boot,
                             consumers, enqueued, robot, invoked, ignored>>
         ELSE CallRegister(c)

\* Strings are sequences of one-character strings.
RobotName == <<"b", "o", "t">>
\* (?i): letters compare without regard to case.
Lower(ch) ==
    CASE ch = "B" -> "b"
      [] ch = "H" -> "h"
      [] ch = "I" -> "i"
      [] OTHER -> ch
\* The literal lit matches text at position i.
LitAt(text, lit, i) ==
    /\ i + Len(lit) - 1 <= Len(text)
    /\ \A k \in 1 .. Len(lit) : Lower(text[i + k - 1]) = Lower(lit[k])
\* regexp.MustCompile("(?i)" + pattern), for a literal pattern.
HearPattern(pattern) == [anchored |-> FALSE, name |-> << >>, pat |-> pattern]
\* regexp.MustCompile(fmt.Sprintf("(?i)^@?%s[,:]?\\s*%s", r.Name, pattern))
RespondPattern(pattern) == [anchored |-> TRUE, name |-> RobotName, pat |-> pattern]

\* A Respond pattern that is not anchored at the start of the text.
FindStringSubmatch_unanchored(re, text) ==
    \E s \in 0 .. Len(text), a \in {0, 1}, c \in {0, 1}, w \in 0 .. Len(text) :
        LET q == s + a + Len(re.name) + 1
        IN  /\ re.anchored => (a = 1 => (Len(text) >= s + 1 /\ text[s + 1] = "@"))
            /\ ~re.anchored => (a = 0 /\ c = 0 /\ w = 0)
            /\ LitAt(text, re.name, s + a + 1)
            /\ c = 1 => (q <= Len(text) /\ text[q] \in {",", ":"})
            /\ \A k \in 0 .. w - 1 : q + c + k <= Len(text) /\ text[q + c + k] = " "
            /\ LitAt(text, re.pat, q + c + w)

\* Pattern.FindStringSubmatch(text) # nil: the leftmost match of the compiled
\* expression exists.  Unanchored, the pattern may start anywhere; anchored,
\* the text starts with an optional "@", the name, an optional "," or ":",
\* any number of white-space characters, and the pattern.
FindStringSubmatch(re, text) ==
    \E s \in 0 .. Len(text), a \in {0, 1}, c \in {0, 1}, w \in 0 .. Len(text) :
        LET q == s + a + Len(re.name) + 1
        IN  /\ re.anchored => (s = 0 /\ (a = 1 => (Len(text) >= 1 /\ text[1] = "@")))
            /\ ~re.anchored => (a = 0 /\ c = 0 /\ w = 0)
            /\ LitAt(text, re.name, s + a + 1)
            /\ c = 1 => (q <= Len(text) /\ text[q] \in {",", ":"})
            /\ \A k \in 0 .. w - 1 : q + c + k <= Len(text) /\ text[q + c + k] = " "
            /\ LitAt(text, re.pat, q + c + w)

\* Hear: appends a listener that is not direct.
Hear(pattern) ==
    /\ Len(robot.listeners) < MaxListeners
    /\ robot' = [robot EXCEPT !.listeners =
                    Append(@, [Pattern |-> HearPattern(pattern), IsDirect |-> FALSE])]
    /\ UNCHANGED <<conn, sockClosed, closed, connected, msgID, responseHandlers, handlers,
                   Messages, messagesClosed, doneClosed, panicked, rl_pc, cur, sendTo,
                   pl_pc, pings, call, writes, spawned, closeRet, connectRet, issued, routed,
                   notified, nCloses, decodeErrors, ran, boot, consumers, enqueued, invoked, ignored>>

\* Respond: appends a direct listener.
Respond(pattern) ==
    /\ Len(robot.listeners) < MaxListeners
    /\ robot' = [robot EXCEPT !.listeners =
                    Append(@, [Pattern |-> RespondPattern(pattern), IsDirect |-> TRUE])]
    /\ UNCHANGED <<conn, sockClosed, closed, connected, msgID, responseHandlers, handlers,
                   Messages, messagesClosed, doneClosed, panicked, rl_pc, cur, sendTo,
                   pl_pc, pings, call, writes, spawned, closeRet, connectRet, issued, routed,
                   notified, nCloses, decodeErrors, ran, boot, consumers, enqueued, invoked, ignored>>

\* Robot.handleMessage: goes through r.listeners in order and starts, with
\* "go", the handler of each listener whose pattern matches msg.Text.
RobotHandleMessage(text) ==
    /\ invoked' = [handled |-> TRUE, text |-> text,
                   started |-> SelectSeq([i \in 1 .. Len(robot.listeners) |-> i],
                                         LAMBDA i : FindStringSubmatch(robot.listeners[i].Pattern, text))]
    /\ UNCHANGED <<conn, sockClosed, closed, connected, msgID, responseHandlers, handlers,
                   Messages, messagesClosed, doneClosed, panicked, rl_pc, cur, sendTo,
                   pl_pc, pings, call, writes, spawned, closeRet, connectRet, issued, routed,
                   notified, nCloses, decodeErrors, ran, boot, consumers, enqueued, robot, ignored>>

\* ------------------------------------------------------- session bootstrap
\* The callbacks of createSession and startNotification, named after the
\* call they belong to; the second start_notification (after a reset) has its
\* own pair of callbacks.
Method(cb) == IF cb = "start_notification_retry" THEN "start_notification" ELSE cb
\* create_session takes the token, the API version and the OS string; the
\* other bootstrap calls take an empty parameter list.
CallParams(cb) == IF cb = "create_session" THEN ArrV(3, "") ELSE ArrV(0, "")

\* A bootstrap in which get_talks is requested before get_domains.
NextCall_swapped(cb) ==
    CASE cb = "create_session" -> "get_talks"
      [] cb = "get_talks" -> "get_domains"
      [] cb = "get_domains" -> "get_talk_statuses"
      [] cb = "get_talk_statuses" -> "start_notification"
      [] cb = "reset_notification" -> "start_notification_retry"
      [] cb = "start_notification_retry" -> "update_last_used_at"
      [] OTHER -> "none"

\* The call each success callback issues last.
NextCall(cb) ==
    CASE cb = "create_session" -> "get_domains"
      [] cb = "get_domains" -> "get_talks"
      [] cb = "get_talks" -> "get_talk_statuses"
      [] cb = "get_talk_statuses" -> "start_notification"
      [] cb = "reset_notification" -> "start_notification_retry"
      [] cb = "start_notification_retry" -> "update_last_used_at"
      [] OTHER -> "none"

\* The success callback of get_talks: the result is a non-empty list whose
\* first talk is a map with an "id", "talk_id" or "talkId" key.
HasTalkID(result) ==
    /\ result.t = "arr"
    /\ result.n > 0
    /\ \E k \in {"id", "talk_id", "talkId"} : MapGet(MapV(result.s), k) # NilV

\* A handleResponse that still holds c.mu when it invokes the callback.
CallbackHoldsLock_yes == TRUE

\* handleResponse unlocks c.mu before it invokes OnError / OnSuccess.
CallbackHoldsLock == FALSE

\* What a goroutine running bootstrap code has changed so far in its step:
\* the fields of the client it touches, the bootstrap's pending callbacks and
\* history, and whether it holds c.mu ("locked") or waits for it for ever
\* ("deadlocked").
BootState ==
    [msgID |-> msgID, responseHandlers |-> responseHandlers, writes |-> writes,
     issued |-> issued, spawned |-> spawned, connected |-> connected,
     pending |-> boot.pending, log |-> boot.log, rl |-> "loop"]

\* c.emit(event, data) from bootstrap code.
Emit(acc, event, data) ==
    [acc EXCEPT !.spawned = @ \o Emitted(event, data),
                !.log = Append(@, "emit " \o event)]

\* Error callbacks that report the data as recovered.
OnErrorOf_recovers(acc, cb, err) == Emit(acc, "data_recovered", NilV)

\* The error callbacks of the bootstrap.
OnErrorOf(acc, cb, err) ==
    CASE cb = "create_session" -> Emit(acc, "session_error", err)
      [] cb \in {"start_notification", "start_notification_retry"} ->
            Emit(acc, "notification_error", err)
      [] cb = "update_last_used_at" -> Emit(acc, "data_recovered", NilV)
      [] OTHER -> acc

\* c.call(method, params, onSuccess, onError) made by bootstrap code: takes
\* c.mu, allocates the identifier, registers the callbacks, writes the
\* request frame under c.mu; on a failed write onError runs at once and the
\* callbacks stay registered.
CallFrom(acc, cb, netOk) ==
    IF acc.rl \in {"locked", "deadlocked"} THEN [acc EXCEPT !.rl = "deadlocked"]
    ELSE IF conn = "nil" THEN OnErrorOf(acc, cb, NotConnectedErr)
    ELSE LET id == AllocatedID(acc.msgID)
             sent == [acc EXCEPT
                        !.msgID = @ + 1,
                        !.responseHandlers = {h \in @ : h.id # id} \cup {[id |-> id, owner |-> 0]},
                        !.pending = {q \in @ : q.id # id} \cup {[id |-> id, cb |-> cb]},
                        !.issued = Append(@, id),
                        !.writes = Append(@, WriteRec(RpcRequest, id, StrV(Method(cb)),
                                                      CallParams(cb), netOk)),
                        !.log = Append(@, "call " \o cb)]
         IN  IF WriteStatus(netOk) = "ok" THEN sent
             ELSE OnErrorOf([sent EXCEPT !.log = Append(@, "fail " \o cb)], cb, WriteErr)

\* The success callbacks of the bootstrap.
OnSuccessOf(acc, cb, result, netOk) ==
    CASE cb = "create_session" ->
            CallFrom(Emit([acc EXCEPT !.connected = TRUE], "session_created", result),
                     NextCall(cb), netOk)
      [] cb = "get_talks" ->
            CallFrom(IF HasTalkID(result) THEN CallFrom(acc, "create_message", netOk) ELSE acc,
                     NextCall(cb), netOk)
      [] cb = "start_notification" ->
            IF result = BoolV(FALSE) THEN CallFrom(acc, "reset_notification", netOk)
            ELSE Emit(acc, "data_recovered", result)
      [] cb = "update_last_used_at" -> Emit(acc, "data_recovered", result)
      [] cb = "create_message" -> acc
      [] OTHER -> CallFrom(acc, NextCall(cb), netOk)

\* The step of a goroutine running bootstrap code takes effect.
BootApply(acc) ==
    /\ msgID' = acc.msgID
    /\ responseHandlers' = acc.responseHandlers
    /\ writes' = acc.writes
    /\ issued' = acc.issued
    /\ spawned' = acc.spawned
    /\ connected' = acc.connected
    /\ boot' = [pending |-> acc.pending, log |-> acc.log]

\* createSession, the goroutine Connect starts when an access token is
\* configured: issues create_session.
CreateSession(netOk) ==
    /\ conn = "set"
    /\ boot = NoBoot
    /\ BootApply(CallFrom(BootState, "create_session", netOk))
    /\ UNCHANGED <<conn, sockClosed, closed, handlers, Messages, messagesClosed, doneClosed,
                   panicked, rl_pc, cur, sendTo, pl_pc, pings, call, closeRet, connectRet,
                   routed, notified, nCloses, decodeErrors, ran, consumers, enqueued,
                   robot, invoked, ignored>>

\* The request with this identifier reached the server.
Received(id) ==
    \E i \in DOMAIN writes :
        writes[i].k = RpcRequest /\ writes[i].id = id /\ writes[i].status = "ok"

\* readLoop routes the response to a bootstrap call (the server answers the
\* requests that reached it): handleResponse looks the callbacks up and
\* deletes them under c.mu, then runs OnError or OnSuccess on the readLoop
\* goroutine, which issues the next calls from there.
RLBoot(data, netOk) ==
    LET id == toInt64(data.id)
        hs == IF id.ok THEN LookupHandler(id.n) ELSE {}
    IN  /\ rl_pc = "read"
        /\ Route(data) = "response"
        /\ hs # {}
        /\ Received(id.n)
        /\ \A h \in hs : h.owner = 0
        /\ LET cb == (CHOOSE q \in boot.pending : q.id = id.n).cb
               failed == ResponseErr(data) # NilV
               acc0 == [BootState EXCEPT
                          !.responseHandlers = {h \in @ : h.id # id.n},
                          !.pending = {q \in @ : q.id # id.n},
                          !.log = Append(@, (IF failed THEN "err " ELSE "ok ") \o cb),
                          !.rl = IF CallbackHoldsLock THEN "locked" ELSE "loop"]
               acc == IF failed THEN OnErrorOf(acc0, cb, ResponseErr(data))
                      ELSE OnSuccessOf(acc0, cb, ResponseResult(data), netOk)
           IN  /\ BootApply(acc)
               /\ rl_pc' = IF acc.rl = "deadlocked" THEN "deadlocked" ELSE "loop"
        /\ UNCHANGED <<conn, sockClosed, closed, handlers, Messages, messagesClosed, doneClosed,
                       panicked, cur, sendTo, pl_pc, pings, call, closeRet, connectRet,
                       routed, notified, nCloses, decodeErrors, ran, consumers, enqueued,
                       robot, invoked, ignored>>

\* ----------------------------------------------------------- specification
Next ==
    \/ \E dialOk \in BOOLEAN : Connect(dialOk)
    \/ \E sockErr \in BOOLEAN : Close(sockErr)
    \/ \E event \in Events : On(event)
    \/ \E c \in Calls : CallRegister(c)
    \/ \E c \in Calls, marshalOk \in BOOLEAN, netOk \in BOOLEAN : CallWrite(c, marshalOk, netOk)
    \/ \E c \in Calls, fromResult \in BOOLEAN : CallReturn(c, fromResult)
    \/ \E c \in Calls : CallTimeout(c)
    \/ RLCheck
    \/ \E sawClosed \in BOOLEAN : RLReadErr(sawClosed)
    \/ \E data \in InboundData, netOk \in BOOLEAN : RLHandle(data, netOk)
    \/ RLUnblock
    \/ PingCheck
    \/ PingStart
    \/ \E netOk \in BOOLEAN : PingWrite(netOk)
    \/ PingDone
    \/ \E i \in 1 .. (MaxNotifs + MaxDecodeErrors + 1) * MaxHandlers : HandlerRun(i)

Spec == Init /\ [][Next]_vars

\* The client with no subscriber and no heartbeat tick, whose dial and socket
\* close succeed, facing a server that sends responses only: request/response
\* correlation.
NextRPC ==
    \/ Connect(TRUE)
    \/ Close(FALSE)
    \/ \E c \in Calls : CallRegister(c)
    \/ \E c \in Calls, marshalOk \in BOOLEAN, netOk \in BOOLEAN : CallWrite(c, marshalOk, netOk)
    \/ \E c \in Calls, fromResult \in BOOLEAN : CallReturn(c, fromResult)
    \/ \E c \in Calls : CallTimeout(c)
    \/ RLCheck
    \/ \E sawClosed \in BOOLEAN : RLReadErr(sawClosed)
    \/ \E data \in ResponseFrames : RLHandle(data, TRUE)
    \/ RLUnblock

SpecRPC == Init /\ [][NextRPC]_vars

\* The same with every goroutine that can take a step taking it eventually:
\* call() goes on to its write, Call's select returns when a channel is ready
\* or its timer fires, and the read loop keeps running.
SpecRPCFair ==
    /\ SpecRPC
    /\ \A c \in Calls :
          /\ WF_vars(\E marshalOk \in BOOLEAN, netOk \in BOOLEAN : CallWrite(c, marshalOk, netOk))
          /\ WF_vars(\E fromResult \in BOOLEAN : CallReturn(c, fromResult))
          /\ WF_vars(CallTimeout(c))
    /\ WF_vars(RLCheck)
    /\ WF_vars(RLUnblock)

\* The client with subscribers, issuing no call, facing a server that sends
\* notifications and stray frames: notification dispatch.
NextNotify ==
    \/ \E dialOk \in BOOLEAN : Connect(dialOk)
    \/ \E sockErr \in BOOLEAN : Close(sockErr)
    \/ \E event \in {"notify_create_message", "error"} : On(event)
    \/ RLCheck
    \/ \E data \in RequestFrames \cup OtherFrames \cup {ShortData}, netOk \in BOOLEAN :
          RLHandle(data, netOk)
    \/ \E sawClosed \in BOOLEAN : RLReadErr(sawClosed)

SpecNotify == Init /\ [][NextNotify]_vars

\* The three writers of the socket: calls, the read loop's acknowledgments
\* and the heartbeat.
NextWrites ==
    \/ Connect(TRUE)
    \/ \E c \in Calls : CallRegister(c)
    \/ \E c \in Calls : CallWrite(c, TRUE, TRUE)
    \/ RLCheck
    \/ \E data \in AckedFrames : RLHandle(data, TRUE)
    \/ PingCheck
    \/ PingStart
    \/ \E netOk \in BOOLEAN : PingWrite(netOk)

SpecWrites == Init /\ [][NextWrites]_vars

\* A server that mixes undecodable messages with responses and notifications,
\* and a subscriber to decode_error.
NextMixed ==
    \/ Connect(TRUE)
    \/ On("decode_error")
    \/ \E c \in Calls : CallRegister(c)
    \/ \E c \in Calls : CallWrite(c, TRUE, TRUE)
    \/ \E c \in Calls, fromResult \in BOOLEAN : CallReturn(c, fromResult)
    \/ RLCheck
    \/ \E data \in MixedData : RLHandle(data, TRUE)

SpecMixed == Init /\ [][NextMixed]_vars

\* Subscribers and the goroutines emit starts for them, with a server that
\* sends message deliveries and another notification.
NextEvents ==
    \/ Connect(TRUE)
    \/ \E event \in {"notify_create_message", "error"} : On(event)
    \/ RLCheck
    \/ \E data \in EventFrames : RLHandle(data, TRUE)
    \/ \E i \in 1 .. MaxNotifs * MaxHandlers : HandlerRun(i)

SpecEvents == Init /\ [][NextEvents]_vars

\* A connected client whose Messages queue nobody drains, after enough
\* message deliveries to leave it full or nearly full.
Backlog(n) == [i \in 1 .. n |-> [ID |-> "m1", TalkID |-> "t1"]]
InitQueue ==
    /\ conn = "set"
    /\ sockClosed = FALSE
    /\ closed = FALSE
    /\ connected = FALSE
    /\ msgID = 0
    /\ responseHandlers = {}
    /\ handlers = [e \in Events |-> << >>]
    /\ Messages \in {Backlog(n) : n \in MessagesCap - 1 .. MessagesCap}
    /\ messagesClosed = FALSE
    /\ doneClosed = 0
    /\ panicked = FALSE
    /\ rl_pc = "loop"
    /\ cur = NoData
    /\ sendTo = 0
    /\ pl_pc = "wait"
    /\ pings = 0
    /\ call = [c \in Calls |-> NewCall]
    /\ writes = << >>
    /\ spawned = << >>
    /\ closeRet = "none"
    /\ connectRet = "nil"
    /\ issued = << >>
    /\ routed = << >>
    /\ notified = << >>
    /\ nCloses = 0
    /\ decodeErrors = << >>
    /\ ran = << >>
    /\ boot = NoBoot
    /\ consumers = << >>
    /\ enqueued = Messages
    /\ ignored = 0
    /\ robot = NewRobot
    /\ invoked = NoMessage

NextQueue ==
    \/ Close(FALSE)
    \/ On("notify_create_message")
    \/ RLCheck
    \/ \E data \in EventFrames, netOk \in BOOLEAN : RLHandle(data, netOk)
    \/ \E sawClosed \in BOOLEAN : RLReadErr(sawClosed)

SpecQueue == InitQueue /\ [][NextQueue]_vars

\* The connection's lifecycle with both background loops: a server that sends
\* notifications, a network that may fail, the heartbeat, and Close.
NextClose ==
    \/ Connect(TRUE)
    \/ Close(FALSE)
    \/ RLCheck
    \/ \E sawClosed \in BOOLEAN : RLReadErr(sawClosed)
    \/ \E data \in AckedFrames : RLHandle(data, TRUE)
    \/ PingCheck
    \/ PingStart
    \/ \E netOk \in BOOLEAN : PingWrite(netOk)
    \/ PingDone

SpecClose == Init /\ [][NextClose]_vars

\* The same with the loops scheduled: readLoop reaches its closed check, a
\* ReadMessage on a released socket returns its error, a ping write returns,
\* and the select of pingLoop takes the closed c.Done.  Nothing obliges the
\* application to call Close, the network to fail or the ticker to fire.
SpecCloseFair ==
    /\ SpecClose
    /\ WF_vars(RLCheck)
    /\ WF_vars(sockClosed /\ \E sawClosed \in BOOLEAN : RLReadErr(sawClosed))
    /\ WF_vars(PingStart)
    /\ WF_vars(\E netOk \in BOOLEAN : PingWrite(netOk))
    /\ WF_vars(PingDone)

\* Shutdown by the application on a network that does not fail by itself:
\* subscribers to "error", notifications arriving, Close at any moment, and a
\* read that fails only because the socket was released.
NextShutdown ==
    \/ Connect(TRUE)
    \/ \E sockErr \in BOOLEAN : Close(sockErr)
    \/ \E event \in {"notify_create_message", "error"} : On(event)
    \/ RLCheck
    \/ \E data \in AckedFrames, netOk \in BOOLEAN : RLHandle(data, netOk)
    \/ RLReadClosed

SpecShutdown == Init /\ [][NextShutdown]_vars

\* Pending calls and a subscriber, with a server that sends well-formed
\* notifications and messages handleMessage has no route for: too short, of
\* a non-numeric kind, of a kind that is neither request nor response.
Unroutable == OtherFrames \cup {ShortData}
NextUnroutable ==
    \/ Connect(TRUE)
    \/ On("notify_create_message")
    \/ \E c \in Calls : CallRegister(c)
    \/ \E c \in Calls : CallWrite(c, TRUE, TRUE)
    \/ RLCheck
    \/ \E data \in Unroutable \cup AckedFrames, netOk \in BOOLEAN : RLHandle(data, netOk)

SpecUnroutable == Init /\ [][NextUnroutable]_vars

\* A client with an access token: the session bootstrap, a server that
\* answers its requests with results of every shape or with an error, and
\* an application call waiting for its response.
BootResults == {BoolV(TRUE), BoolV(FALSE), ArrV(1, "talk_id:t1"), ArrV(0, "")}
BootFrames ==
    {Frame(IntV(RpcResponse), IntV(i), NilV, r) : i \in 1 .. MaxBootIds, r \in BootResults}
    \cup {Frame(IntV(RpcResponse), IntV(i), MapV("message:not found"), NilV) :
             i \in 1 .. MaxBootIds}
NextBoot ==
    \/ Connect(TRUE)
    \/ \E netOk \in BOOLEAN : CreateSession(netOk)
    \/ CallRegister(1)
    \/ CallWrite(1, TRUE, TRUE)
    \/ RLCheck
    \/ \E data \in BootFrames, netOk \in BOOLEAN : RLBoot(data, netOk)

SpecBoot == Init /\ [][NextBoot]_vars

\* Handlers registered with OnMessage and a server that sends message
\* deliveries.
NextConsume ==
    \/ Connect(TRUE)
    \/ OnMessage
    \/ RLCheck
    \/ \E data \in EventFrames : RLHandle(data, TRUE)
    \/ \E h \in 1 .. MaxConsumers : Consume(h)

SpecConsume == Init /\ [][NextConsume]_vars

\* A Robot: Run creates the client, connects and later stops, while the
\* application calls Robot.Call / Robot.SendText at any time.
NextRobot ==
    \/ RunNewClient
    \/ RunOnMessage
    \/ \E dialOk \in BOOLEAN : RunConnect(dialOk)
    \/ RunStop
    \/ \E c \in Calls : RobotCall(c)
    \/ \E c \in Calls, netOk \in BOOLEAN : CallWrite(c, TRUE, netOk)
    \/ \E c \in Calls, fromResult \in BOOLEAN : CallReturn(c, fromResult)
    \/ \E c \in Calls : CallTimeout(c)
    \/ RLCheck
    \/ \E sawClosed \in BOOLEAN : RLReadErr(sawClosed)

SpecRobot == Init /\ [][NextRobot]_vars

\* A Robot named "bot" with listeners for two patterns, handling messages
\* with these texts.
Patterns == {<<"h", "i">>, <<"t">>}
Texts ==
    {<<"h", "i">>,   \* "hi"
     <<"s", "a", "y", " ", "h", "i">>,   \* "say hi"
     <<"H", "I">>,   \* "HI"
     <<"b", "o", "t", " ", "h", "i">>,   \* "bot hi"
     <<"@", "b", "o", "t", ":", " ", "h", "i">>,   \* "@bot: hi"
     <<"B", "o", "t", ",", " ", " ", "h", "i">>,   \* "Bot,  hi"
     <<"b", "o", "t", "h", "i">>,   \* "bothi"
     <<"s", "a", "y", " ", "b", "o", "t", " ", "h", "i">>,   \* "say bot hi"
     <<"@", "b", "o", "t">>,   \* "@bot"
     <<"b", "o", " ", "h", "i">>,   \* "bo hi"
     <<"b", "o", "t", ":", " ", "t">>,   \* "bot: t"
     << >>,   \* ""
     <<"@", "b", "o", "t", ":", "h", "i", " ", "t", "h", "e", "r", "e">>}   \* "@bot:hi there"
NextListeners ==
    \/ \E pattern \in Patterns : Hear(pattern)
    \/ \E pattern \in Patterns : Respond(pattern)
    \/ \E text \in Texts : RobotHandleMessage(text)

SpecListeners == Init /\ [][NextListeners]_vars

\* ------------------------------------------------------------------ claims
OkRet(v) == [kind |-> "ok", val |-> v, msg |-> ""]
ErrRet(text) == [kind |-> "err", val |-> NilV, msg |-> text]
\* The call was completed by a response routed while Call was still waiting,
\* and by nothing else (no error of call() itself), and Call has returned.
AnsweredInTime(c) ==
    /\ call[c].completedBy # NoResponse
    /\ ~call[c].late
    /\ call[c].cbCount = 1
    /\ call[c].pc = "done"
Pending(c) == \E h \in responseHandlers : h.id = call[c].id /\ h.owner = c
Acks == SelectSeq(writes, LAMBDA w : w.k = RpcResponse)

\* C1: a call answered by a response with a null error field returns that
\* response's result field unchanged, with a nil error.
C1_ResultUnchanged ==
    \A c \in Calls :
        (AnsweredInTime(c) /\ call[c].completedBy.f3 = NilV)
            => call[c].ret = OkRet(call[c].completedBy.f4)

C1_Witness ==
    \E c \in Calls :
        /\ AnsweredInTime(c)
        /\ call[c].completedBy.f3 = NilV
        /\ call[c].ret = OkRet(MapV("id:user123"))

C3_OwnIdentifier ==
    \A c \in Calls :
        /\ call[c].completedBy # NoResponse => call[c].completedBy.id = call[c].id
        /\ call[c].ret.kind = "ok"
              => /\ call[c].completedBy.id = call[c].id
                 /\ call[c].ret.val = call[c].completedBy.f4

\* Two calls pending together, answered in reverse order of issue with
\* different results, each returning its own.
C3_Witness ==
    /\ call[1].id = 1 /\ call[2].id = 2
    /\ routed = <<2, 1>>
    /\ call[1].ret = OkRet(MapV("id:user123"))
    /\ call[2].ret = OkRet(BoolV(TRUE))

\* C4: every kind-0 frame routed has produced exactly one acknowledgment
\* [1, id, nil, true] with its identifier, in order.
C4_AckEveryRequest ==
    /\ Len(Acks) = Len(notified)
    /\ \A i \in 1 .. Len(notified) :
          notified[i].t = "int"
              => /\ Acks[i].id = notified[i].n
                 /\ Acks[i].f3 = NilV
                 /\ Acks[i].f4 = BoolV(TRUE)

\* C5: a response for an identifier whose call has already been resolved
\* invokes no callback.
C5_StaleResponseDiscarded ==
    \A c \in Calls : ~call[c].late

\* C6: a call that timed out has no entry left in the pending set, and no
\* response completes it afterwards.
C6_TimedOutEvicted ==
    \A c \in Calls :
        (call[c].pc = "done" /\ call[c].ret = ErrRet("RPC timeout"))
            => ~Pending(c) /\ ~call[c].late

\* C7: the step in which a call times out happens only with nothing
\* delivered to it, gives the timeout error to that call, and changes neither
\* the connection nor the pending set nor any other call.
C7_TimeoutIsLocal ==
    [][\A c \in Calls :
          (call[c].pc = "select" /\ call'[c].pc = "done" /\ call'[c].ret.msg = "RPC timeout")
              => /\ call[c].resultCh = << >> /\ call[c].errCh = << >>
                 /\ call'[c].ret = ErrRet("RPC timeout")
                 /\ \A d \in Calls \ {c} : call'[d] = call[d]
                 /\ UNCHANGED <<conn, sockClosed, closed, doneClosed, messagesClosed,
                                rl_pc, responseHandlers, writes>>]_vars

\* One call timed out, another returned its result, the connection open.
C7_Witness ==
    \E c, d \in Calls :
        /\ call[c].pc = "done" /\ call[c].ret = ErrRet("RPC timeout")
        /\ call[d].pc = "done" /\ call[d].ret.kind = "ok"
        /\ conn = "set" /\ ~closed /\ ~sockClosed

\* C8: the identifiers allocated start at 1, are never 0 and strictly
\* increase, so none is used twice; every registered call holds one of them.
C8_IdentifiersFresh ==
    /\ \A i \in DOMAIN issued : issued[i] >= 1
    /\ issued # << >> => issued[1] = 1
    /\ \A i, j \in DOMAIN issued : i < j => issued[i] < issued[j]
    /\ \A c \in Calls : call[c].id # 0 => \E i \in DOMAIN issued : issued[i] = call[c].id
    /\ \A c, d \in Calls : (c # d /\ call[c].id # 0) => call[c].id # call[d].id

\* Two callers inside call() at once, both registered, neither written.
C8_Witness ==
    /\ Len(issued) >= 2
    /\ call[1].pc = "write" /\ call[2].pc = "write"

\* C9: a call started after Close hands no frame to the socket and returns
\* the not-connected error.
C9_FailFastAfterClose ==
    \A c \in Calls :
        call[c].afterClose
            => /\ \A i \in DOMAIN writes :
                     ~(writes[i].k = RpcRequest /\ writes[i].id = call[c].id)
               /\ call[c].pc = "done"
                     => call[c].ret = ErrRet("RPC error: map[message:not connected]")

\* C10 (as stated): no Close call returns an error.
C10_CloseNeverFails == closeRet \in {"none", "nil"}

\* C10 (amended): Done is closed at most once, exactly once when a connected
\* client has been closed, without a panic; a Close on a closed client returns
\* nil and changes nothing.
C10_CloseIdempotent ==
    /\ [](/\ doneClosed <= 1
          /\ ~panicked
          /\ closed => (doneClosed = 1 /\ sockClosed))
    /\ [][nCloses' = nCloses + 1
             => IF conn = "nil" \/ closed
                THEN /\ closeRet' = "nil"
                     /\ UNCHANGED <<conn, sockClosed, closed, connected, doneClosed,
                                    panicked, responseHandlers, handlers, Messages,
                                    messagesClosed>>
                ELSE /\ closed' /\ sockClosed'
                     /\ doneClosed' = 1]_vars

\* A second Close on a closed client.
C10_Witness ==
    /\ nCloses >= 2
    /\ closed /\ doneClosed = 1
    /\ closeRet = "nil"

\* C11: no frame is written under c.mu (a request from call, an
\* acknowledgment from the read loop) while the heartbeat is inside its own
\* write on the same connection.
C11_WritesSerialized ==
    \A i \in DOMAIN writes : ~writes[i].duringPing

\* C12: once the read loop has terminated, the closed flag is set.
C12_ReadErrorMarksClosed ==
    rl_pc = "exited" => closed

\* C13: the step that handles an undecodable message starts the decode_error
\* handlers and nothing else: the read loop goes back to the top of its loop,
\* and the pending set, the calls, the queue and the socket are untouched.
C13_DecodeErrorKeepsLoop ==
    [][Len(decodeErrors') > Len(decodeErrors)
         => /\ rl_pc' = "loop"
            /\ spawned' = spawned \o
                  [i \in 1 .. Len(handlers["decode_error"]) |->
                     [h |-> handlers["decode_error"][i], event |-> "decode_error",
                      data |-> MapV("error:decode failed")]]
            /\ UNCHANGED <<responseHandlers, call, Messages, messagesClosed, writes,
                           conn, closed, sockClosed>>]_vars

\* An undecodable message came first; after it a response completed a call
\* and a notification was acknowledged; the handler of decode_error was started.
C13_Witness ==
    /\ decodeErrors = <<0>>
    /\ \E c \in Calls : AnsweredInTime(c) /\ call[c].ret = OkRet(MapV("id:user123"))
    /\ Len(notified) >= 1 /\ Len(Acks) >= 1
    /\ \E i \in DOMAIN spawned : spawned[i].event = "decode_error"

\* C14: every Call that has started eventually returns.
C14_EveryCallReturns ==
    \A c \in Calls : (call[c].pc # "idle") ~> (call[c].pc = "done")

\* C15: a call made while there is no connection allocates no identifier,
\* registers nothing and writes nothing, its only outcome being the
\* not-connected error, which Call returns.
C15_NotConnectedCall ==
    /\ [](\A c \in Calls :
            (call[c].pc # "idle" /\ call[c].id = 0)
               => /\ ~Pending(c)
                  /\ call[c].pc \in {"select", "done"}
                  /\ call[c].pc = "select" => call[c].errCh = <<MapV("message:not connected")>>
                  /\ call[c].pc = "done"
                        => call[c].ret = ErrRet("RPC error: map[message:not connected]"))
    /\ [][\A c \in Calls :
            (call[c].pc = "idle" /\ call'[c].pc # "idle" /\ conn = "nil")
               => /\ call'[c].id = 0
                  /\ call'[c].errCh = <<MapV("message:not connected")>>
                  /\ UNCHANGED <<msgID, responseHandlers, writes, issued>>]_vars

\* A call made before Connect has returned the error; nothing was allocated.
C15_Witness ==
    \E c \in Calls :
        /\ call[c].pc = "done" /\ call[c].id = 0
        /\ call[c].ret = ErrRet("RPC error: map[message:not connected]")
        /\ conn = "nil" /\ msgID = 0 /\ writes = << >> /\ responseHandlers = {}

\* C16: the loops exist exactly when a connection was made, a connection is
\* never replaced, a loop that ended is never started again and the closed
\* flag is never reset; a Connect on a client that has a connection returns
\* the already-connected error and changes nothing.
C16_ConnectOnce ==
    /\ []((rl_pc = "off") = (conn = "nil"))
    /\ [][conn = "set"
            => /\ conn' = "set"
               /\ closed => closed'
               /\ rl_pc = "exited" => rl_pc' = "exited"
               /\ rl_pc' # "off" /\ pl_pc' # "off"
               /\ connectRet' # connectRet
                     => /\ connectRet' = "already connected"
                        /\ UNCHANGED <<clientVars, rl_pc, pl_pc>>]_vars

\* Connect was refused on a client that had been closed.
C16_Witness ==
    /\ connectRet = "already connected"
    /\ closed /\ nCloses >= 1 /\ conn = "set"

\* The handler goroutines a notification has to start: one per handler
\* registered for its method, in list order, with params[0] as payload.
HandlersOf(data) ==
    LET hs == IF data.f3.s \in DOMAIN handlers THEN handlers[data.f3.s] ELSE << >>
    IN  [i \in 1 .. Len(hs) |-> [h |-> hs[i], event |-> data.f3.s, data |-> MapV(data.f4.s)]]
IsDelivery(data) == data.f3.s \in {"notify_create_message", "create_message"}
Record(data) == parseMessage(MapV(data.f4.s))

C19_QueueBounded ==
    /\ [](Len(Messages) <= MessagesCap)
    /\ [][\A data \in EventFrames, netOk \in BOOLEAN :
            (RLHandle(data, netOk) /\ Len(Messages) = MessagesCap)
                => /\ Messages' = Messages
                   /\ rl_pc' = "loop"
                   /\ Len(writes') = Len(writes) + 1
                   /\ writes'[Len(writes')].k = RpcResponse
                   /\ writes'[Len(writes')].id = data.id.n
                   /\ writes'[Len(writes')].f3 = NilV
                   /\ writes'[Len(writes')].f4 = BoolV(TRUE)]_vars

\* Two deliveries with an ID arrived at a queue holding at least capacity - 1
\* records: the queue is full, both were acknowledged, the loop reads on.
C19_Witness ==
    /\ Len(Messages) = MessagesCap
    /\ Len(spawned) = 2
    /\ \A i \in DOMAIN spawned : spawned[i].data = MapV("id:m1 talk_id:t1")
    /\ Len(Acks) = 2
    /\ rl_pc = "read"

\* C20: of two handlers started one after the other by the same emit, the
\* later registered one runs only after the earlier registered one.
C20_HandlersRunInOrder ==
    \A i \in 1 .. Len(spawned) - 1 :
        (/\ spawned[i].event = spawned[i + 1].event
         /\ spawned[i].h < spawned[i + 1].h
         /\ \E k \in DOMAIN ran : ran[k] = i + 1)
            => \E j, k \in DOMAIN ran : j < k /\ ran[j] = i /\ ran[k] = i + 1

\* C21: a handler that is slow or never returns blocks nothing: whatever
\* handler goroutines have not run yet, the read loop goes on to its next
\* read and routes the next frame, every other started handler can run, and
\* the step that routes a notification writes its acknowledgment and returns
\* to the top of the loop without waiting for any handler.
C21_SlowHandlerBlocksNothing ==
    /\ [](rl_pc = "loop" => ENABLED RLCheck)
    /\ [](rl_pc = "read" /\ Len(notified) < MaxNotifs
            => \A data \in EventFrames : ENABLED RLHandle(data, TRUE))
    /\ [](\A i \in 1 .. Len(spawned) :
            (\A j \in 1 .. Len(ran) : ran[j] # i) => ENABLED HandlerRun(i))
    /\ [][\A data \in EventFrames :
            RLHandle(data, TRUE)
            => /\ writes' = Append(writes, [k |-> RpcResponse, id |-> toInt64(data.id).n,
                                             f3 |-> NilV, f4 |-> BoolV(TRUE), status |-> "ok",
                                             duringPing |-> FALSE, underLock |-> TRUE])
               /\ rl_pc' = "loop"
               /\ ran' = ran]_vars

\* Two handlers of one notification; the first never ran, the second did, the
\* notification and a later one were acknowledged.
C21_Witness ==
    /\ Len(spawned) >= 2
    /\ spawned[1].event = spawned[2].event
    /\ \A j \in 1 .. Len(ran) : ran[j] # 1
    /\ \E j \in 1 .. Len(ran) : ran[j] = 2
    /\ Len(notified) = 2
    /\ Len(writes) = 2
    /\ \A i \in 1 .. 2 : writes[i].k = RpcResponse /\ writes[i].status = "ok"
    /\ rl_pc = "read"

\* C22: Close stops the background loops: once Close has taken effect the
\* read loop and the heartbeat loop both terminate eventually, and a ping
\* write that returns after Close has failed and ended the heartbeat loop,
\* so no ping frame reaches the socket after Close.
C22_CloseStopsLoops ==
    /\ closed ~> (rl_pc = "exited" /\ pl_pc = "exited")
    /\ [][closed /\ pings' = pings + 1 => pl_pc' = "exited"]_vars

\* Close returned, a ping had been attempted and both loops have terminated.
C22_Witness ==
    /\ closed
    /\ nCloses >= 1 /\ closeRet = "nil"
    /\ pings = 1
    /\ rl_pc = "exited" /\ pl_pc = "exited"

\* C23: whenever the connection ends, by Close or by a network failure that
\* terminates the read loop, Done is eventually closed.
C23_DoneClosedOnShutdown == (rl_pc = "exited") ~> (doneClosed >= 1)

\* C28: c.mu, the lock of the pending-call map and of the subscriber map, is
\* not held while a frame is written to the socket.
C28_NoSocketWriteUnderLock ==
    \A i \in DOMAIN writes : ~writes[i].underLock

\* C29: in no interleaving is the socket closed while a writer that checked
\* the closed flag is inside its write: when Close releases the socket the
\* heartbeat is not inside conn.WriteMessage.
C29_NoWriteAcrossClose ==
    [][~closed /\ closed' => pl_pc # "writing"]_vars

\* Position of the first occurrence of an entry in the bootstrap's history
\* (0: none), and "b happens only after a".
Pos(e) ==
    IF \E i \in DOMAIN boot.log : boot.log[i] = e
    THEN CHOOSE i \in DOMAIN boot.log :
            boot.log[i] = e /\ \A j \in 1 .. i - 1 : boot.log[j] # e
    ELSE 0
OnlyAfter(b, a) == Pos(b) > 0 => (Pos(a) > 0 /\ Pos(a) < Pos(b))
\* create_session is issued first, then get_domains, get_talks,
\* get_talk_statuses and start_notification, each once and only after the
\* successful response to the one before; session_created is emitted before
\* get_domains is issued; on the retry path each call follows the successful
\* response to the one before.
BootOrder ==
    /\ boot.log # << >> => boot.log[1] = "call create_session"
    /\ \A i, j \in DOMAIN boot.log : boot.log[i] = boot.log[j] => i = j
    /\ OnlyAfter("emit session_created", "ok create_session")
    /\ OnlyAfter("call get_domains", "emit session_created")
    /\ OnlyAfter("call get_talks", "ok get_domains")
    /\ OnlyAfter("call get_talk_statuses", "ok get_talks")
    /\ OnlyAfter("call start_notification", "ok get_talk_statuses")
    /\ OnlyAfter("emit data_recovered", "ok start_notification")
    /\ OnlyAfter("call reset_notification", "ok start_notification")
    /\ OnlyAfter("call start_notification_retry", "ok reset_notification")
    /\ OnlyAfter("call update_last_used_at", "ok start_notification_retry")

\* C24 (as stated): the bootstrap calls are issued in order, each after the
\* successful response to the one before, and data_recovered is emitted only
\* after start_notification or, when the retry sequence was started, its last
\* call update_last_used_at has been answered.
C24_BootstrapOrder ==
    /\ BootOrder
    /\ Pos("emit data_recovered") > 0 /\ Pos("call reset_notification") > 0
         => \/ OnlyAfter("emit data_recovered", "ok update_last_used_at")
            \/ OnlyAfter("emit data_recovered", "err update_last_used_at")

\* C24 (amended): the same, where on the retry path data_recovered follows
\* update_last_used_at being answered, with a result or an error, or failing
\* to be written.
C24_BootstrapOrderOrFailedUpdate ==
    /\ BootOrder
    /\ Pos("emit data_recovered") > 0 /\ Pos("call reset_notification") > 0
         => \/ OnlyAfter("emit data_recovered", "ok update_last_used_at")
            \/ OnlyAfter("emit data_recovered", "err update_last_used_at")
            \/ OnlyAfter("emit data_recovered", "fail update_last_used_at")

\* The bootstrap ran to data_recovered through the retry sequence, with the
\* test message requested on the way.
C24_Witness ==
    /\ Pos("emit data_recovered") > 0
    /\ Pos("ok update_last_used_at") > 0
    /\ Pos("call create_message") > 0
    /\ connected

\* C30: issuing calls never deadlocks the read loop: every call a bootstrap
\* callback issues has its request frame written in the callback's step, the
\* read loop returns to the top of its loop, goes on to read, and routes the
\* response to any pending bootstrap call, whatever application call is
\* waiting for its own response.
C30_NestedCallsNeverDeadlock ==
    /\ [](rl_pc \notin {"blocked", "deadlocked"})
    /\ [](\A q \in boot.pending :
            \E i \in DOMAIN writes :
                /\ writes[i].k = RpcRequest
                /\ writes[i].id = q.id
                /\ writes[i].f3 = StrV(Method(q.cb)))
    /\ [](rl_pc = "loop" => ENABLED RLCheck)
    /\ [](rl_pc = "read"
            => \A q \in boot.pending :
                  Received(q.id)
                  => ENABLED RLBoot(Frame(IntV(RpcResponse), IntV(q.id), NilV, BoolV(TRUE)), TRUE))
    /\ [][\A data \in BootFrames, netOk \in BOOLEAN :
            RLBoot(data, netOk) => rl_pc' = "loop" /\ call' = call]_vars

\* An application call issued before the bootstrap is still waiting for its
\* response while the chain of nested calls has run to its last callback.
C30_Witness ==
    /\ call[1].pc = "select" /\ call[1].id = 1
    /\ Pos("ok update_last_used_at") > 0
    /\ rl_pc = "read"

\* C25: every handler registered with OnMessage is called with the records
\* queued on Messages from its registration on, each of them, in queue order:
\* what it has been called with is a prefix of those records.
C25_EveryHandlerGetsEveryMessage ==
    \A h \in 1 .. Len(consumers) :
        LET due == SubSeq(enqueued, consumers[h].since + 1, Len(enqueued))
            got == consumers[h].got
        IN  /\ Len(got) <= Len(due)
            /\ \A i \in 1 .. Len(got) : got[i] = due[i]

\* C26: a Robot.Call or Robot.SendText made after Run has returned and closed
\* the connection hands no frame to the socket and returns ErrNotConnected.
C26_NotRunningNotConnected ==
    \A c \in Calls :
        call[c].afterClose
            => /\ \A i \in DOMAIN writes :
                     ~(writes[i].k = RpcRequest /\ writes[i].id = call[c].id)
               /\ call[c].pc = "done" => call[c].ret = RetErrNotConnected

\* A string with its letters in lower case; the pattern occurs somewhere in
\* the text; the text starts by addressing the robot (its name, with or
\* without "@" before it and "," or ":" after it, then spaces) and goes on
\* with the pattern.
Fold(str) == [i \in 1 .. Len(str) |-> Lower(str[i])]
Contains(text, pattern) ==
    \E i \in 1 .. Len(text) + 1, j \in 0 .. Len(text) :
        SubSeq(Fold(text), i, j) = Fold(pattern)
AddressForms ==
    {at \o Fold(RobotName) \o sep \o sp :
        at \in {<< >>, <<"@">>},
        sep \in {<< >>, <<",">>, <<":">>},
        sp \in {<< >>, <<" ">>, <<" ", " ">>}}
AddressedWith(text, pattern) ==
    \E form \in AddressForms :
        /\ Len(form) + Len(pattern) <= Len(text)
        /\ SubSeq(Fold(text), 1, Len(form) + Len(pattern)) = form \o Fold(pattern)

C31_RoutedInArrivalOrder ==
    /\ [](/\ Len(Acks) = Len(notified)
          /\ \A i \in 1 .. Len(Acks) : Acks[i].id = toInt64(notified[i]).n)
    /\ [][/\ (rl_pc' = "read" /\ rl_pc # "read") => rl_pc = "loop"
          /\ \A data \in AckedFrames :
                RLHandle(data, TRUE) =>
                    /\ rl_pc' = "loop"
                    /\ Len(Acks') = Len(Acks) + 1
                    /\ Acks'[Len(Acks')].id = toInt64(data.id).n]_vars

\* C31 witness: two notifications arrived, identifier 1 then identifier 0,
\* and their acknowledgments were written in that order.
C31_Witness ==
    /\ notified = <<IntV(1), IntV(0)>>
    /\ Len(Acks) = 2
    /\ Acks[1].id = 1
    /\ Acks[2].id = 0
    /\ rl_pc = "loop"

\* C32: each call is completed at most once: over its whole life at most one
\* invocation of its OnSuccess / OnError callbacks takes place.
C32_CompletedAtMostOnce ==
    \A c \in Calls : call[c].cbCount <= 1

\* C33: a call whose request frame failed to be written has no entry in the
\* pending set.
C33_FailedWriteNotPending ==
    \A c \in Calls :
        (\E i \in 1 .. Len(writes) :
            /\ writes[i].k = RpcRequest
            /\ writes[i].id = call[c].id
            /\ writes[i].status # "ok")
        => ~Pending(c)

\* C34: routing an inbound kind-0 frame neither removes an entry of the
\* pending set nor completes a call, also when the frame's identifier is that
\* of a pending call.
C34_RequestFrameLeavesPending ==
    [][\A data \in AckedFrames :
          (data.kind = IntV(RpcRequest) /\ RLHandle(data, TRUE))
              => /\ responseHandlers' = responseHandlers
                 /\ call' = call
                 /\ routed' = routed]_vars

\* C34 witness: a notification with identifier 1 has been routed while the
\* call with identifier 1 was pending, and the call is still pending with no
\* callback invoked.
C34_Witness ==
    /\ call[1].id = 1
    /\ call[1].pc = "select"
    /\ Pending(1)
    /\ call[1].cbCount = 0
    /\ Len(issued) = 1
    /\ notified = <<IntV(1)>>
    /\ Len(writes) = 2
    /\ writes[1].k = RpcRequest
    /\ writes[2].k = RpcResponse

\* The steps of the bootstrap chain, and the history entries that record a
\* request being issued.
ChainSteps ==
    {"create_session", "get_domains", "get_talks", "get_talk_statuses",
     "start_notification", "start_notification_retry"}
IssueEntries ==
    {"call " \o cb : cb \in ChainSteps \cup {"create_message", "reset_notification",
                                             "update_last_used_at"}}

\* C35: once a step of the bootstrap chain has been answered with an error,
\* no further request is issued by the bootstrap and data_recovered is not
\* emitted; an error answer to create_session emits session_error and
\* leaves the connected flag false.
C35_FailedStepStopsChain ==
    /\ \A cb \in ChainSteps :
          Pos("err " \o cb) > 0 =>
              /\ \A i \in DOMAIN boot.log :
                    i > Pos("err " \o cb) => boot.log[i] \notin IssueEntries
              /\ Pos("emit data_recovered") = 0
    /\ Pos("err create_session") > 0 =>
          /\ Pos("emit session_error") = Pos("err create_session") + 1
          /\ ~connected
          /\ Pos("emit session_created") = 0

\* C35 witness: the session was created, get_domains succeeded, get_talks was
\* answered with an error, and nothing of the bootstrap is pending any more.
C35_Witness ==
    /\ Pos("emit session_created") > 0
    /\ Pos("ok get_domains") > 0
    /\ Pos("err get_talks") = Len(boot.log)
    /\ boot.pending = {}
    /\ rl_pc = "loop"
    /\ connected

\* C36: Close causes no "error" event: when the read loop's read fails because
\* Close released the socket, no handler of "error" is started, whatever the
\* read loop was doing when Close ran.
C36_CloseEmitsNoError ==
    /\ [](\A i \in DOMAIN spawned : spawned[i].event # "error")
    /\ [][RLReadClosed => spawned' = spawned /\ rl_pc' = "exited"]_vars

\* C36 witness: a handler is subscribed to "error" and Close has run, with
\* the socket released, while the read loop was inside ReadMessage.
C36_Witness ==
    /\ Len(handlers["error"]) >= 1
    /\ closed
    /\ sockClosed
    /\ rl_pc = "read"
    /\ ENABLED RLReadClosed

\* C37: a decodable message with fewer than 4 elements, a non-numeric kind
\* or a kind other than 0 and 1 has no effect: routing it starts no handler,
\* invokes no callback, writes no frame and leaves the pending set and the
\* Messages queue as they were; the read loop goes back to the top of its loop.
C37_UnroutableIgnored ==
    [][\A data \in OtherFrames \cup {ShortData}, netOk \in BOOLEAN :
          RLHandle(data, netOk) =>
              /\ rl_pc' = "loop"
              /\ UNCHANGED <<responseHandlers, call, routed, Messages, enqueued, writes,
                             spawned, notified, decodeErrors, handlers, msgID, conn,
                             closed, connected>>]_vars

\* C37 witness: such a message, carrying identifier 1, has been dropped while
\* the call with identifier 1 was pending, a handler was subscribed and a
\* record was waiting in Messages; the call is still pending, uncompleted.
C37_Witness ==
    /\ ignored >= 1
    /\ call[1].id = 1
    /\ call[1].pc = "select"
    /\ call[1].cbCount = 0
    /\ Pending(1)
    /\ Len(handlers["notify_create_message"]) >= 1
    /\ Len(Messages) = 1
    /\ Len(writes) = 2
    /\ rl_pc = "loop"

\* C38: c.Messages is closed by the read loop as it exits and by nothing
\* else, so it is closed once; from then on the read loop stays exited and
\* no record is sent on the channel, and nothing panics.
C38_MessagesClosedOnceAtExit ==
    /\ [](messagesClosed <=> rl_pc = "exited")
    /\ [](~panicked)
    /\ [][/\ (~messagesClosed /\ messagesClosed') =>
                (rl_pc \in {"loop", "read"} /\ rl_pc' = "exited")
          /\ messagesClosed =>
                /\ messagesClosed'
                /\ rl_pc' = "exited"
                /\ enqueued' = enqueued
                /\ Len(Messages') <= Len(Messages)]_vars

\* C38 witness: a record was sent on c.Messages, Close ran, and the read loop
\* has exited and closed the channel with the record still in it.
C38_Witness ==
    /\ Len(enqueued) >= 1
    /\ Len(Messages) >= 1
    /\ nCloses >= 1
    /\ closed
    /\ rl_pc = "exited"
    /\ messagesClosed

====
